---- MODULE Spec2Model ----
(***************************************************************************)
(* Model of stevecallear/rack: the lambda invocation pipeline built by     *)
(* NewWithConfig, the middleware Chain, the event processor resolvers and  *)
(* the handler Context.                                                    *)
(*                                                                         *)
(* Conventions.  A Go error is the sequence of the errors of its cause     *)
(* chain, outermost first; the nil error is the empty sequence.  A Go      *)
(* []byte result is the empty sequence (nil) or a one element sequence     *)
(* holding the encoded document.  A Go map is a function over its keys.    *)
(***************************************************************************)
EXTENDS Integers, Sequences, FiniteSets, TLC

\* ------------------------------------------------------------- bounds ----
\* handler body: at most MaxOps Context calls before it returns
MaxOps == 2
\* Chain(m...): at most MaxMw middleware functions
MaxMw == 2
\* conditional resolver: at most MaxProcs processors in the list
MaxProcs == 3
\* StatusCode: at most MaxChain errors in a cause chain
MaxChain == 3
\* Context store: every goroutine makes at most MaxCalls calls of Get and Set
MaxCalls == 2
\* Response writers: at most MaxWrites writes to one Response
MaxWrites == 3
\* invocations: at most MaxInvocations invocations of one handler
MaxInvocations == 3

\* ------------------------------------------------------------- errors ----
Nil == <<>>

PlainNode(m) == [t |-> "plain", code |-> 0, msg |-> m]
StatusNode(c) == [t |-> "status", code |-> c, msg |-> ""]
\* an error of another type that wraps its cause (fmt.Errorf with %w)
WrapNode(m) == [t |-> "wrap", code |-> 0, msg |-> m]
\* an error of another type that has a Code method
CodedNode(c, m) == [t |-> "coded", code |-> c, msg |-> m]

\* errors.New(m)
NewPlain(m) == <<PlainNode(m)>>

\* WrapError(code, err): a *StatusError holding err
WrapError(c, e) == <<StatusNode(c)>> \o e

\* (*StatusError).Error / error.Error: a status error reports the message of
\* the error it wraps, any other error its own message
RECURSIVE ErrorMsg(_)
ErrorMsg(e) ==
    IF e = Nil THEN ""
    ELSE IF Head(e).t = "status" THEN ErrorMsg(Tail(e))
    ELSE Head(e).msg

StatusInternalServerError == 500
StatusBadRequest == 400
StatusOK == 200

\* the statusError interface: the error has a Code method
IsStatusError(n) == n.t \in {"status", "coded"}

\* a StatusCode whose errors.As target is the concrete type *StatusError
RECURSIVE StatusCodeConcrete(_)
StatusCodeConcrete(e) ==
    IF e = Nil THEN StatusInternalServerError
    ELSE IF Head(e).t = "status" THEN Head(e).code
    ELSE StatusCodeConcrete(Tail(e))

\* StatusCode: errors.As walks the chain outermost first and stops at the
\* first error that has a Code method
RECURSIVE StatusCode(_)
StatusCode(e) ==
    IF e = Nil THEN StatusInternalServerError
    ELSE IF IsStatusError(Head(e)) THEN Head(e).code
    ELSE StatusCode(Tail(e))

ErrUnsupportedEventType == NewPlain("unsupported event type")
ErrSyntax == NewPlain("unexpected end of JSON input")
ErrUnsupportedType == NewPlain("json: unsupported type: chan int")

\* ------------------------------------------------------------ headers ----
EmptyMap == [k \in {} |-> <<>>]

MapSet(h, k, v) == [x \in (DOMAIN h) \cup {k} |-> IF x = k THEN v ELSE h[x]]

\* textproto.CanonicalMIMEHeaderKey on the keys the model uses
CanonicalKey(k) ==
    CASE k = "content-type" -> "Content-Type"
      [] k = "x-custom-header" -> "X-Custom-Header"
      [] OTHER -> k

\* http.Header.Get: first value stored under the canonical form of the key
HeaderGet(h, k) ==
    IF CanonicalKey(k) \in DOMAIN h /\ Len(h[CanonicalKey(k)]) > 0
    THEN h[CanonicalKey(k)][1]
    ELSE ""

\* http.Header.Set: replaces the values stored under the canonical key
HeaderSet(h, k, v) == MapSet(h, CanonicalKey(k), <<v>>)

\* a Go map value: the nil map, or a map with the entries kv
NilMap == [nil |-> TRUE, kv |-> EmptyMap]
MakeMap(kv) == [nil |-> FALSE, kv |-> kv]

\* url.Values.Add: appends v to the values stored under k
ValuesAdd(m, k, v) == MapSet(m, k, (IF k \in DOMAIN m THEN m[k] ELSE <<>>) \o <<v>>)

\* http.Header.Add: appends v to the values stored under the canonical key
HeaderAdd(h, k, v) == ValuesAdd(h, CanonicalKey(k), v)

\* the orders in which a range statement can visit the keys of a map
KeyOrders(m) ==
    {o \in [1..Cardinality(DOMAIN m) -> DOMAIN m] :
        \A i, j \in DOMAIN o : o[i] = o[j] => i = j}

\* mergeMaps, second loop: the addFn calls for the keys of mv visited in
\* the order ord, every list front to back
RECURSIVE MultiValueCalls(_, _)
MultiValueCalls(mv, ord) ==
    IF ord = <<>> THEN <<>>
    ELSE [j \in 1..Len(mv[Head(ord)]) |-> <<Head(ord), mv[Head(ord)][j]>>]
         \o MultiValueCalls(mv, Tail(ord))

\* a mergeMaps that ranges over the multi-value map first
mergeMapsMultiFirst(sv, mv, osv, omv) ==
    MultiValueCalls(mv, omv) \o [i \in 1..Len(osv) |-> <<osv[i], sv[osv[i]]>>]

\* mergeMaps(sv, mv, addFn): the calls of addFn, in order, when the keys of
\* sv are visited in the order osv and those of mv in the order omv
mergeMaps(sv, mv, osv, omv) ==
    [i \in 1..Len(osv) |-> <<osv[i], sv[osv[i]]>>] \o MultiValueCalls(mv, omv)

\* the map after the Add calls, h.Add for headers and q.Add for a query
RECURSIVE AddAll(_, _, _)
AddAll(m, addCalls, header) ==
    IF addCalls = <<>> THEN m
    ELSE LET c == Head(addCalls) IN
         AddAll(IF header THEN HeaderAdd(m, c[1], c[2]) ELSE ValuesAdd(m, c[1], c[2]),
                Tail(addCalls), header)

\* strings.Split(s, ","), a string being the sequence of its pieces and
\* separators: the pieces between the separators, "" for an empty piece
RECURSIVE SplitFrom(_, _)
SplitFrom(s, piece) ==
    IF s = <<>> THEN <<piece>>
    ELSE IF Head(s) = "," THEN <<piece>> \o SplitFrom(Tail(s), "")
    ELSE SplitFrom(Tail(s), piece \o Head(s))

Split(s) == SplitFrom(s, "")

\* the string itself
RECURSIVE Join(_)
Join(s) == IF s = <<>> THEN "" ELSE Head(s) \o (IF Len(s) > 1 THEN Join(Tail(s)) ELSE "")

reduceHeaders(h) == [k \in DOMAIN h |-> HeaderGet(h, k)]

\* http.StatusText on the codes the model uses
StatusText(c) ==
    CASE c = 200 -> "OK"
      [] c = 201 -> "Created"
      [] c = 204 -> "No Content"
      [] c = 400 -> "Bad Request"
      [] c = 409 -> "Conflict"
      [] c = 500 -> "Internal Server Error"
      [] OTHER -> ""

\* ----------------------------------------------------------- payloads ----
\* gjson result of the path "version": whether it exists and its String()
VersionAbsent == [exists |-> FALSE, str |-> ""]
Version20 == [exists |-> TRUE, str |-> "2.0"]
Version10 == [exists |-> TRUE, str |-> "1.0"]
VersionNull == [exists |-> TRUE, str |-> ""]
Versions == {VersionAbsent, Version20, Version10, VersionNull}

BodyEmpty == ""
BodyInvalid == "{"
BodyValid == "{\"key\":\"value\"}"
Bodies == {BodyEmpty, BodyInvalid, BodyValid}

\* a payload: the fields the predicates look at, whether json.Unmarshal into
\* the event type succeeds, and the event's body
\* the map fields of an event; a field the payload does not carry decodes
\* to the nil map
NoMaps ==
    [pathParameters |-> NilMap, queryStringParameters |-> NilMap,
     multiValueQueryStringParameters |-> NilMap, headers |-> NilMap,
     multiValueHeaders |-> NilMap]

MkPayload(v, a, e, d, b) ==
    [version |-> v, apiId |-> a, elb |-> e, decodable |-> d, body |-> b, maps |-> NoMaps]

\* the iteration orders one decode of p can take over the maps it ranges over
RangeOrders(p) ==
    [qs : KeyOrders(p.maps.queryStringParameters.kv),
     qm : KeyOrders(p.maps.multiValueQueryStringParameters.kv),
     hs : KeyOrders(p.maps.headers.kv),
     hm : KeyOrders(p.maps.multiValueHeaders.kv)]

AllPayloads ==
    {MkPayload(v, a, e, d, b) :
        v \in Versions, a \in BOOLEAN, e \in BOOLEAN, d \in BOOLEAN, b \in {BodyEmpty}}

\* --------------------------------------------------------- processors ----
Processors == {"Proxy", "V2", "ALB"}
NoProc == "none"

APIGatewayProxyCanProcess(p) == ~p.version.exists /\ p.apiId

\* a V2 predicate that does not look at the version
APIGatewayV2CanProcessAnyVersion(p) == p.apiId

APIGatewayV2CanProcess(p) == p.version.str = "2.0" /\ p.apiId

ALBCanProcess(p) == p.elb

CanProcess(pp, p) ==
    CASE pp = "Proxy" -> APIGatewayProxyCanProcess(p)
      [] pp = "V2" -> APIGatewayV2CanProcess(p)
      [] pp = "ALB" -> ALBCanProcess(p)

\* UnmarshalRequest: json.Unmarshal of the payload into the event, then the
\* canonical request (the fields the pipeline and Bind use)
NoRequest ==
    [Path |-> NilMap, Query |-> NilMap, Header |-> NilMap, Body |-> "", Event |-> NoProc]

\* APIGatewayProxyEventProcessor.unmarshalRequest after json.Unmarshal
ProxyRequest(p) ==
    [Path |-> p.maps.pathParameters,
     Query |-> p.maps.multiValueQueryStringParameters,
     Header |-> p.maps.multiValueHeaders,
     Body |-> p.body, Event |-> "Proxy"]

\* APIGatewayV2HTTPEventProcessor.unmarshalRequest after json.Unmarshal
V2Request(p, ord) ==
    LET qsp == p.maps.queryStringParameters.kv
        pieces == [k \in DOMAIN qsp |-> Split(qsp[k])]
    IN
    [Path |-> p.maps.pathParameters,
     Query |-> MakeMap(AddAll(EmptyMap, MultiValueCalls(pieces, ord.qs), FALSE)),
     Header |-> MakeMap(AddAll(EmptyMap, mergeMaps(p.maps.headers.kv, EmptyMap, ord.hs, <<>>), TRUE)),
     Body |-> p.body, Event |-> "V2"]

\* ALBTargetGroupEventProcessor.unmarshalRequest after json.Unmarshal
ALBRequest(p, ord) ==
    LET qsp == p.maps.queryStringParameters.kv
        whole == [k \in DOMAIN qsp |-> Join(qsp[k])]
    IN
    [Path |-> MakeMap(EmptyMap),
     Query |-> MakeMap(AddAll(EmptyMap,
                  mergeMaps(whole, p.maps.multiValueQueryStringParameters.kv, ord.qs, ord.qm),
                  FALSE)),
     Header |-> MakeMap(AddAll(EmptyMap,
                  mergeMaps(p.maps.headers.kv, p.maps.multiValueHeaders.kv, ord.hs, ord.hm),
                  TRUE)),
     Body |-> p.body, Event |-> "ALB"]

\* UnmarshalRequest of processor pp, the maps ranged over in the orders ord
UnmarshalRequest(pp, p, ord) ==
    IF ~p.decodable
    THEN [req |-> NoRequest, err |-> ErrSyntax]
    ELSE [req |-> CASE pp = "Proxy" -> ProxyRequest(p)
                    [] pp = "V2" -> V2Request(p, ord)
                    [] pp = "ALB" -> ALBRequest(p, ord),
          err |-> Nil]

\* MarshalResponse: json.Marshal of the processor's response event
MarshalResponse(pp, r) ==
    [bytes |-> <<[format |-> pp,
                  StatusCode |-> r.StatusCode,
                  StatusDescription |-> IF pp = "ALB" THEN StatusText(r.StatusCode) ELSE "",
                  Headers |-> reduceHeaders(r.Headers),
                  MultiValueHeaders |-> r.Headers,
                  Body |-> r.Body,
                  IsBase64Encoded |-> FALSE]>>,
     err |-> Nil]

\* ---------------------------------------------------------- resolvers ----
\* a loop that keeps looking after a match and returns the last one
RECURSIVE ConditionalLastFrom(_, _, _, _)
ConditionalLastFrom(ps, p, i, consulted) ==
    IF i > Len(ps)
    THEN [p |-> NoProc, err |-> ErrUnsupportedEventType, consulted |-> consulted]
    ELSE LET rest == ConditionalLastFrom(ps, p, i + 1, Append(consulted, i)) IN
         IF rest.err = Nil \/ ~CanProcess(ps[i], p)
         THEN rest
         ELSE [p |-> ps[i], err |-> Nil, consulted |-> rest.consulted]

\* the loop of NewConditionalResolver from index i on; consulted lists the
\* processors whose CanProcess was called
RECURSIVE ConditionalFrom(_, _, _, _)
ConditionalFrom(ps, p, i, consulted) ==
    IF i > Len(ps)
    THEN [p |-> NoProc, err |-> ErrUnsupportedEventType, consulted |-> consulted]
    ELSE IF CanProcess(ps[i], p)
         THEN [p |-> ps[i], err |-> Nil, consulted |-> Append(consulted, i)]
         ELSE ConditionalFrom(ps, p, i + 1, Append(consulted, i))

NewConditionalResolver(ps) == [kind |-> "conditional", ps |-> ps]

NewStaticResolver(pp) == [kind |-> "static", ps |-> <<pp>>]

\* a default resolver that probes the load balancer processor first
defaultResolverALBFirst == NewConditionalResolver(<<"ALB", "Proxy", "V2">>)

defaultResolver == NewConditionalResolver(<<"Proxy", "V2", "ALB">>)

NilResolver == [kind |-> "nil", ps |-> <<>>]

\* resolverFunc.Resolve
Resolve(r, p) ==
    IF r.kind = "static"
    THEN [p |-> r.ps[1], err |-> Nil, consulted |-> <<>>]
    ELSE ConditionalFrom(r.ps, p, 1, <<>>)


\* --------------------------------------------------------------- JSON ----
GoValue(t, v) == [type |-> t, val |-> v]

\* json.Marshal of the values the model uses: the default error handler's
\* message struct, a struct with one string field "key", and a channel,
\* which has no JSON form
jsonMarshal(v) ==
    CASE v.type = "message" -> [text |-> "{\"message\":\"" \o v.val \o "\"}", err |-> Nil]
      [] v.type = "obj" -> [text |-> "{\"key\":\"" \o v.val \o "\"}", err |-> Nil]
      [] OTHER -> [text |-> "", err |-> ErrUnsupportedType]

\* json.Unmarshal of a request body into a struct with one string field
\* "key": a syntax error leaves the target as it was
jsonUnmarshal(body, target) ==
    IF body = BodyValid
    THEN [v |-> GoValue("obj", "value"), err |-> Nil]
    ELSE [v |-> target, err |-> ErrSyntax]

\* --------------------------------------------------------- middleware ----
HandlerName == "H"

MwNames == <<"M1", "M2", "M3", "M4">>

\* m[i](n): the handler that runs middleware m[i] around the handler n; a
\* composed handler is the sequence of its layers, outermost first
Wrap(mi, n) == <<mi>> \o n

\* the loop of Chain: i runs from len(m)-1 down to 0 (here Len(m) down to 1)
RECURSIVE ChainFrom(_, _, _)
ChainFrom(m, i, n) ==
    IF i < 1 THEN n ELSE ChainFrom(m, i - 1, Wrap(m[i], n))

\* a loop that wraps in argument order, so that the last function ends up
\* outermost
RECURSIVE ChainForwardFrom(_, _, _)
ChainForwardFrom(m, i, n) ==
    IF i > Len(m) THEN n ELSE ChainForwardFrom(m, i + 1, Wrap(m[i], n))

ChainForward(m, n) == ChainForwardFrom(m, 1, n)

Chain(m, n) == ChainFrom(m, Len(m), n)

\* NewWithConfig, lines 56-58: the handler every invocation runs
ComposeHandler(c) ==
    IF c.mw.set THEN Chain(c.mw.m, <<HandlerName>>) ELSE <<HandlerName>>

\* ------------------------------------------------------ configuration ----
Resolvers == {NilResolver, NewStaticResolver("V2")}

NilMiddleware == [set |-> FALSE, m |-> <<>>]

\* Config.Middleware = Chain(M1, ..., Mn)
ChainOf(n) == [set |-> TRUE, m |-> SubSeq(MwNames, 1, n)]

Middlewares == {NilMiddleware, ChainOf(1)}

\* OnBind, OnError and OnEmptyResponse are nil (the default is used) or a
\* function of the caller
Configs ==
    [resolver : Resolvers, mw : Middlewares,
     onBind : {"nil", "custom"}, onError : {"nil", "custom"},
     onEmptyResponse : {"nil", "custom"}]

\* the payloads handed to Invoke
Payloads ==
    {MkPayload(VersionAbsent, FALSE, FALSE, TRUE, BodyEmpty),
     MkPayload(Version20, TRUE, FALSE, FALSE, BodyEmpty),
     MkPayload(VersionAbsent, TRUE, FALSE, TRUE, BodyEmpty),
     MkPayload(VersionAbsent, TRUE, TRUE, TRUE, BodyEmpty),
     MkPayload(Version20, TRUE, TRUE, TRUE, BodyEmpty),
     MkPayload(VersionAbsent, FALSE, TRUE, TRUE, BodyEmpty)} \cup
    {MkPayload(Version20, TRUE, FALSE, TRUE, b) : b \in Bodies}

\* status codes a handler passes to the writers
Codes == {0, 201}

\* errors a handler returns
HandlerErrs ==
    {NewPlain("error"),
     WrapError(409, NewPlain("error")),
     WrapError(0, NewPlain("error"))}

ErrDenied == NewPlain("denied")
ErrInvalid == NewPlain("invalid")
ErrBadInput == WrapError(StatusBadRequest, NewPlain("invalid"))
ErrFatal == NewPlain("fatal")
ErrEmpty == NewPlain("empty")

\* -------------------------------------------------------------- state ----
VARIABLES
    cfg,        \* the Config given to NewWithConfig
    h,          \* the composed handler
    pc,         \* position of the invocation in the invoke function
    payload,    \* the payload of the invocation
    proc,       \* p: the resolved processor
    request,    \* handlerContext.request
    response,   \* handlerContext.response
    ret,        \* what Invoke returned: [bytes, err]
    err,        \* the variable err of the invoke function
    stage,      \* which call set err: "exec" (h) or "empty" (onEmptyResponse)
    depth,      \* the layer of h that is running (0: h has returned)
    dir,        \* "call": the layer was entered, "ret": its inner handler returned
    hret,       \* the error returned by the last layer that returned
    started,    \* the user handler has been entered
    nops,       \* Context calls made by the user handler
    last,       \* the error returned by the handler's last Context call
    target,     \* the value the handler binds into
    trace,      \* what ran in h, in order
    calls,      \* how often each function was called in this invocation
    bindRec,    \* the last Bind call
    onErrRet,   \* what the last call of the error handler returned
    execStatus, \* Response status when h returned
    wrote,      \* which Response fields h wrote
    rs,         \* resolver under test: list, result, CanProcess of the three
    sc,         \* StatusCode under test: the error and the code returned
    enc,        \* MarshalResponse under test: processor, Response, result
    dec,        \* UnmarshalRequest under test: processor, payload, result
    st,         \* Context store under test: map, mutex, goroutines, history
    wr,         \* Response writers under test: Response, the last call
    iv          \* invocations of one handler: composition, Contexts

pipeVars == <<pc, payload, proc, request, response, ret, err, stage>>
execVars == <<depth, dir, hret, started, nops, last, target>>
histVars == <<trace, calls, bindRec, onErrRet, execStatus, wrote>>
unitVars == <<sc, enc, dec, st, wr, iv>>
vars == <<cfg, h, pipeVars, execVars, histVars, rs, unitVars>>

NewResponse == [StatusCode |-> 0, Headers |-> EmptyMap, Body |-> ""]
NoRet == [bytes |-> <<>>, err |-> Nil]
NoCalls ==
    [resolve |-> 0, unmarshal |-> 0, mw |-> 0, handler |-> 0, onBind |-> 0,
     onEmptyResponse |-> 0, onError |-> 0, marshal |-> 0]
NoBind ==
    [called |-> FALSE, body |-> "", before |-> GoValue("obj", ""),
     after |-> GoValue("obj", ""), ret |-> Nil, callbacks |-> 0,
     arg |-> GoValue("obj", ""), cbret |-> Nil]
NoRs == [ps |-> <<>>, done |-> FALSE, p |-> NoProc, err |-> Nil, consulted |-> <<>>,
         probed |-> FALSE, can |-> [q \in Processors |-> FALSE]]

NoSc == [e |-> Nil, done |-> FALSE, code |-> 0]
NoEnc == [p |-> NoProc, r |-> NewResponse, done |-> FALSE, out |-> NoRet]
NoDec ==
    [p |-> NoProc, ev |-> MkPayload(VersionAbsent, FALSE, FALSE, FALSE, BodyEmpty),
     done |-> FALSE, out |-> [req |-> NoRequest, err |-> Nil]]

\* goroutines of one invocation that share the Context
Goroutines == {"g1", "g2"}
NoValue == "nil"
\* the Context as NewWithConfig builds it: store nil, mutex unlocked
NewStore ==
    [store |-> NilMap, writer |-> "none", readers |-> {},
     gpc |-> [g \in Goroutines |-> "idle"],
     op |-> [g \in Goroutines |-> [k |-> "", v |-> NoValue]],
     sawNil |-> [g \in Goroutines |-> FALSE],
     n |-> [g \in Goroutines |-> 0],
     sets |-> <<>>,
     got |-> [g \in Goroutines |-> [called |-> FALSE, k |-> "", v |-> NoValue, after |-> 0]]]

\* a writer call: the writer, its code, its string and its value
NoWrite == [op |-> "none", code |-> 0, s |-> "", v |-> GoValue("obj", "")]

\* a new Context on which no writer was called and no goroutine is in one
NoWr ==
    [r |-> NewResponse, n |-> 0,
     call |-> [op |-> "none", code |-> 0, arg |-> "", before |-> NewResponse, err |-> Nil],
     gpc |-> [g \in Goroutines |-> "idle"],
     w |-> [g \in Goroutines |-> NoWrite],
     b |-> [g \in Goroutines |-> ""]]

\* the Contexts of the invocations that can run at the same time
Slots == {1, 2}

\* no Context: the slot has not been used
NoContext == [live |-> FALSE, id |-> 0, response |-> NewResponse, store |-> NilMap,
              ran |-> <<>>, writes |-> 0]

\* NewWithConfig has not been called
NoIv ==
    [built |-> FALSE, h |-> <<HandlerName>>,
     applied |-> [i \in 1..Len(MwNames) |-> 0],
     n |-> 0, ctx |-> [s \in Slots |-> NoContext]]

Inc(c, f) == [c EXCEPT ![f] = @ + 1]

Fresh ==
    /\ proc = NoProc /\ request = NoRequest /\ response = NewResponse
    /\ ret = NoRet /\ err = Nil /\ stage = "exec"
    /\ depth = 0 /\ dir = "call" /\ hret = Nil /\ started = FALSE /\ nops = 0
    /\ last = Nil /\ target = GoValue("obj", "")
    /\ trace = <<>> /\ calls = NoCalls /\ bindRec = NoBind /\ onErrRet = Nil
    /\ execStatus = 0 /\ wrote = [status |-> FALSE, body |-> FALSE]

\* nothing is under test on its own
NoUnit ==
    /\ sc = NoSc
    /\ enc = NoEnc
    /\ dec = NoDec
    /\ st = NewStore
    /\ wr = NoWr
    /\ iv = NoIv

\* the default configuration, nothing invoked
Unused ==
    /\ cfg = [resolver |-> NilResolver, mw |-> NilMiddleware, onBind |-> "nil",
              onError |-> "nil", onEmptyResponse |-> "nil"]
    /\ h = ComposeHandler(cfg)
    /\ pc = "idle"
    /\ payload = MkPayload(VersionAbsent, FALSE, FALSE, FALSE, BodyEmpty)
    /\ Fresh
    /\ rs = NoRs

\* NewWithConfig has returned the handler; nothing has been invoked
Init ==
    /\ cfg \in Configs
    /\ h = ComposeHandler(cfg)
    /\ pc = "idle"
    /\ payload = MkPayload(VersionAbsent, FALSE, FALSE, FALSE, BodyEmpty)
    /\ Fresh
    /\ rs = NoRs
    /\ NoUnit


\* ------------------------------------------------- configured defaults ----
\* NewWithConfig, lines 60-63
Resolver(c) == IF c.resolver.kind = "nil" THEN defaultResolver ELSE c.resolver

\* ------------------------------------------------ Context: the writers ----
\* a NoContent that also drops the body and the Content-Type
NoContentClears(r, code) ==
    [r EXCEPT !.StatusCode = code, !.Body = "",
              !.Headers = [k \in (DOMAIN @) \ {"Content-Type"} |-> @[k]]]

NoContent(r, code) == [r EXCEPT !.StatusCode = code]

String(r, code, s) ==
    [r EXCEPT !.StatusCode = code, !.Body = s,
              !.Headers = MapSet(@, "Content-Type", <<"text/plain">>)]

\* a JSON that writes the status before it marshals the value
JSONStatusFirst(r, code, v) ==
    LET b == jsonMarshal(v) IN
    IF b.err # Nil
    THEN [res |-> [r EXCEPT !.StatusCode = code], err |-> b.err]
    ELSE [res |-> [r EXCEPT !.StatusCode = code, !.Body = b.text,
                            !.Headers = MapSet(@, "Content-Type", <<"application/json">>)],
          err |-> Nil]

\* JSON: nothing is written when the value cannot be marshalled
JSON(r, code, v) ==
    LET b == jsonMarshal(v) IN
    IF b.err # Nil
    THEN [res |-> r, err |-> b.err]
    ELSE [res |-> [r EXCEPT !.StatusCode = code, !.Body = b.text,
                            !.Headers = MapSet(@, "Content-Type", <<"application/json">>)],
          err |-> Nil]

\* an error handler that writes status 500 whatever the error
defaultErrorHandlerAlways500(r, e) ==
    JSON(r, StatusInternalServerError, GoValue("message", ErrorMsg(e)))

\* an error handler that hands the error back instead of writing it
defaultErrorHandlerReturnsErr(r, e) == [res |-> r, err |-> e]

\* an error handler that writes the error to a Response without the headers
\* written before
defaultErrorHandlerNewHeaders(r, e) ==
    JSON([r EXCEPT !.Headers = EmptyMap], StatusCode(e), GoValue("message", ErrorMsg(e)))

\* lines 135-143
defaultErrorHandler(r, e) == JSON(r, StatusCode(e), GoValue("message", ErrorMsg(e)))

\* an empty-response policy that leaves the Response as it is
defaultEmptyResponseKeeps(r) == [res |-> r, err |-> Nil]

\* NewWithConfig, lines 77-79: the default empty-response policy
defaultEmptyResponse(r) == [res |-> NoContent(r, StatusOK), err |-> Nil]

\* a Bind that hands an empty body to json.Unmarshal
BindNoEmptyCheck(body, v, cb) ==
    LET u == jsonUnmarshal(body, v) IN
    IF u.err # Nil
    THEN [v |-> u.v, err |-> WrapError(StatusBadRequest, u.err), callbacks |-> 0, arg |-> v]
    ELSE [v |-> u.v, err |-> cb, callbacks |-> 1, arg |-> u.v]

\* a Bind that reports an error of the bind-callback as a bad request
BindWrapsCallbackError(body, v, cb) ==
    IF body = ""
    THEN [v |-> v, err |-> Nil, callbacks |-> 0, arg |-> v]
    ELSE LET u == jsonUnmarshal(body, v) IN
         IF u.err # Nil
         THEN [v |-> u.v, err |-> WrapError(StatusBadRequest, u.err), callbacks |-> 0, arg |-> v]
         ELSE [v |-> u.v,
               err |-> IF cb = Nil THEN Nil ELSE WrapError(StatusBadRequest, cb),
               callbacks |-> 1, arg |-> u.v]

\* Bind with the bind-callback returning cb: the target afterwards, the
\* error returned, the number of calls of the callback and the value the
\* callback was called with
Bind(body, v, cb) ==
    IF body = ""
    THEN [v |-> v, err |-> Nil, callbacks |-> 0, arg |-> v]
    ELSE LET u == jsonUnmarshal(body, v) IN
         IF u.err # Nil
         THEN [v |-> u.v, err |-> WrapError(StatusBadRequest, u.err), callbacks |-> 0, arg |-> v]
         ELSE [v |-> u.v, err |-> cb, callbacks |-> 1, arg |-> u.v]

\* ------------------------------------------------------------ actions ----
\* Invoke is called with a payload: a new run of the invoke function
Invoke(p) ==
    /\ pc \in {"idle", "done"}
    /\ pc' = "resolve"
    /\ payload' = p
    /\ proc' = NoProc /\ request' = NoRequest /\ response' = NewResponse
    /\ ret' = NoRet /\ err' = Nil /\ stage' = "exec"
    /\ depth' = 0 /\ dir' = "call" /\ hret' = Nil /\ started' = FALSE /\ nops' = 0
    /\ last' = Nil /\ target' = GoValue("obj", "")
    /\ trace' = <<>> /\ calls' = NoCalls /\ bindRec' = NoBind /\ onErrRet' = Nil
    /\ execStatus' = 0 /\ wrote' = [status |-> FALSE, body |-> FALSE]
    /\ UNCHANGED <<cfg, h, rs, unitVars>>

\* lines 83-86
DoResolve ==
    /\ pc = "resolve"
    /\ LET r == Resolve(Resolver(cfg), payload) IN
       /\ calls' = Inc(calls, "resolve")
       /\ IF r.err # Nil
          THEN /\ ret' = [bytes |-> <<>>, err |-> r.err]
               /\ pc' = "done"
               /\ UNCHANGED proc
          ELSE /\ proc' = r.p
               /\ pc' = "unmarshal"
               /\ UNCHANGED ret
    /\ UNCHANGED <<cfg, h, payload, request, response, err, stage, execVars,
                   trace, bindRec, onErrRet, execStatus, wrote, rs, unitVars>>

\* a decode gate that lets the invocation continue after a failed decode
AfterUnmarshalNoGate(u) ==
    /\ request' = u.req
    /\ response' = NewResponse
    /\ pc' = "exec"
    /\ depth' = 1
    /\ UNCHANGED ret

\* lines 89-103: a failed decode returns (nil, err); otherwise the context is
\* built and h is called
AfterUnmarshal(u) ==
    IF u.err # Nil
    THEN /\ ret' = [bytes |-> <<>>, err |-> u.err]
         /\ pc' = "done"
         /\ UNCHANGED <<request, response, depth>>
    ELSE /\ request' = u.req
         /\ response' = NewResponse
         /\ pc' = "exec"
         /\ depth' = 1
         /\ UNCHANGED ret

\* line 88
DoUnmarshal ==
    /\ pc = "unmarshal"
    /\ calls' = Inc(calls, "unmarshal")
    /\ \E ord \in RangeOrders(payload) : AfterUnmarshal(UnmarshalRequest(proc, payload, ord))
    /\ UNCHANGED <<cfg, h, payload, proc, err, stage, dir, hret, started, nops,
                   last, target, trace, bindRec, onErrRet, execStatus, wrote, rs, unitVars>>

\* the running layer returns e to its caller; the outermost layer returns
\* to line 103 of the invoke function
Return(e) ==
    /\ hret' = e
    /\ depth' = depth - 1
    /\ dir' = "ret"
    /\ IF depth = 1
       THEN /\ err' = e
            /\ stage' = "exec"
            /\ execStatus' = response'.StatusCode
            /\ pc' = IF e # Nil THEN "onError" ELSE "check"
       ELSE UNCHANGED <<err, stage, execStatus, pc>>

Running(name) == pc = "exec" /\ depth >= 1 /\ dir = "call" /\ h[depth] = name

InMiddleware == pc = "exec" /\ depth >= 1 /\ h[depth] # HandlerName

\* a middleware runs its code before the inner handler and calls it
MwCall ==
    /\ InMiddleware /\ dir = "call"
    /\ trace' = Append(trace, h[depth] \o "-before")
    /\ calls' = Inc(calls, "mw")
    /\ response' = [response EXCEPT !.Headers = HeaderSet(@, "X-Custom-Header", "header")]
    /\ depth' = depth + 1
    /\ UNCHANGED <<cfg, h, pc, payload, proc, request, ret, err, stage, dir, hret,
                   started, nops, last, target, bindRec, onErrRet, execStatus, wrote, rs, unitVars>>

\* a middleware returns without calling the inner handler
MwSkip(e) ==
    /\ InMiddleware /\ dir = "call"
    /\ trace' = Append(trace, h[depth] \o "-before")
    /\ calls' = Inc(calls, "mw")
    /\ UNCHANGED response
    /\ Return(e)
    /\ UNCHANGED <<cfg, h, payload, proc, request, ret, started, nops, last, target,
                   bindRec, onErrRet, wrote, rs, unitVars>>

\* the inner handler returned: the middleware runs its code after the call
\* and returns the inner handler's result
MwAfter ==
    /\ InMiddleware /\ dir = "ret"
    /\ trace' = Append(trace, h[depth] \o "-after")
    /\ UNCHANGED <<response, calls>>
    /\ Return(hret)
    /\ UNCHANGED <<cfg, h, payload, proc, request, ret, started, nops, last, target,
                   bindRec, onErrRet, wrote, rs, unitVars>>

\* the user handler is entered
HandlerStart ==
    /\ Running(HandlerName) /\ ~started
    /\ started' = TRUE
    /\ trace' = Append(trace, HandlerName)
    /\ calls' = Inc(calls, "handler")
    /\ UNCHANGED <<cfg, h, pipeVars, depth, dir, hret, nops, last, target,
                   bindRec, onErrRet, execStatus, wrote, rs, unitVars>>

InHandler == Running(HandlerName) /\ started

CanCall == InHandler /\ nops < MaxOps

HandlerFrame ==
    UNCHANGED <<cfg, h, pc, payload, proc, request, ret, err, stage, depth, dir, hret,
                started, trace, onErrRet, execStatus, rs, unitVars>>

HNoContent(code) ==
    /\ CanCall
    /\ response' = NoContent(response, code)
    /\ last' = Nil
    /\ nops' = nops + 1
    /\ wrote' = [wrote EXCEPT !.status = TRUE]
    /\ UNCHANGED <<target, calls, bindRec>>
    /\ HandlerFrame

HString(code, s) ==
    /\ CanCall
    /\ response' = String(response, code, s)
    /\ last' = Nil
    /\ nops' = nops + 1
    /\ wrote' = [status |-> TRUE, body |-> TRUE]
    /\ UNCHANGED <<target, calls, bindRec>>
    /\ HandlerFrame

HJSON(code, v) ==
    /\ CanCall
    /\ LET j == JSON(response, code, v) IN
       /\ response' = j.res
       /\ last' = j.err
       /\ wrote' = IF j.err = Nil THEN [status |-> TRUE, body |-> TRUE] ELSE wrote
    /\ nops' = nops + 1
    /\ UNCHANGED <<target, calls, bindRec>>
    /\ HandlerFrame

\* the handler assigns Response().Body
HWriteBody(s) ==
    /\ CanCall
    /\ response' = [response EXCEPT !.Body = s]
    /\ last' = Nil
    /\ nops' = nops + 1
    /\ wrote' = [wrote EXCEPT !.body = TRUE]
    /\ UNCHANGED <<target, calls, bindRec>>
    /\ HandlerFrame

\* what the configured bind-callback may return
OnBindResults == IF cfg.onBind = "nil" THEN {Nil} ELSE {Nil, ErrInvalid, ErrBadInput}

HBind(cb) ==
    /\ CanCall
    /\ cb \in OnBindResults
    /\ LET b == Bind(request.Body, target, cb) IN
       /\ target' = b.v
       /\ last' = b.err
       /\ calls' = [calls EXCEPT !.onBind = @ + b.callbacks]
       /\ bindRec' = [called |-> TRUE, body |-> request.Body, before |-> target,
                      after |-> b.v, ret |-> b.err, callbacks |-> b.callbacks,
                      arg |-> b.arg, cbret |-> IF b.callbacks = 0 THEN Nil ELSE cb]
    /\ nops' = nops + 1
    /\ UNCHANGED <<response, wrote>>
    /\ HandlerFrame

\* the user handler returns nil, an error of its own or the error of its
\* last Context call
HReturn(e) ==
    /\ InHandler
    /\ e \in {Nil, last} \cup HandlerErrs
    /\ UNCHANGED response
    /\ Return(e)
    /\ UNCHANGED <<cfg, h, payload, proc, request, ret, started, nops, last, target,
                   trace, calls, bindRec, onErrRet, wrote, rs, unitVars>>

\* lines 104-106 and 111-113: the error handler is called with err
\*   nil OnError: defaultErrorHandler; a custom OnError returns the error, or
\*   another error, or writes the error as a string, or does nothing
OnErrorOutcomes == IF cfg.onError = "nil" THEN {"default"} ELSE {"same", "other", "write", "ignore"}

OnError(r, e, o) ==
    CASE o = "default" -> defaultErrorHandler(r, e)
      [] o = "same" -> [res |-> r, err |-> e]
      [] o = "other" -> [res |-> r, err |-> ErrFatal]
      [] o = "write" -> [res |-> String(r, StatusCode(e), ErrorMsg(e)), err |-> Nil]
      [] o = "ignore" -> [res |-> r, err |-> Nil]

\* an invoke function that encodes the response although the error handler
\* returned an error
\* an invoke function that encodes the Response next to the error it returns
AfterOnErrorWithBytes(e) ==
    IF e # Nil
    THEN /\ ret' = [bytes |-> MarshalResponse(proc, response').bytes, err |-> e]
         /\ pc' = "done"
    ELSE /\ pc' = IF stage = "exec" THEN "check" ELSE "marshal"
         /\ UNCHANGED ret

\* an invoke function that encodes right after the error handler
AfterOnErrorEncodes(e) ==
    IF e # Nil
    THEN /\ ret' = [bytes |-> <<>>, err |-> e]
         /\ pc' = "done"
    ELSE /\ pc' = "marshal"
         /\ UNCHANGED ret

\* an invoke function that hands an error the error handler returned to the
\* error handler again
AfterOnErrorRetries(e) ==
    IF e # Nil
    THEN /\ pc' = "onError"
         /\ UNCHANGED ret
    ELSE /\ pc' = IF stage = "exec" THEN "check" ELSE "marshal"
         /\ UNCHANGED ret

AfterOnErrorContinue(e) ==
    /\ pc' = IF stage = "exec" THEN "check" ELSE "marshal"
    /\ UNCHANGED ret

\* where the invoke function goes after the error handler returned e
AfterOnError(e) ==
    IF e # Nil
    THEN /\ ret' = [bytes |-> <<>>, err |-> e]
         /\ pc' = "done"
    ELSE /\ pc' = IF stage = "exec" THEN "check" ELSE "marshal"
         /\ UNCHANGED ret

DoOnError(o) ==
    /\ pc = "onError"
    /\ o \in OnErrorOutcomes
    /\ LET x == OnError(response, err, o) IN
       /\ response' = x.res
       /\ err' = x.err
       /\ onErrRet' = x.err
       /\ AfterOnError(x.err)
    /\ calls' = Inc(calls, "onError")
    /\ UNCHANGED <<cfg, h, payload, proc, request, stage, execVars, trace, bindRec,
                   execStatus, wrote, rs, unitVars>>

\* lines 109-110: the status is still 0, the empty-response policy is called
\*   nil OnEmptyResponse: NoContent(200); a custom one fails, or writes 204,
\*   or does nothing
OnEmptyOutcomes == IF cfg.onEmptyResponse = "nil" THEN {"default"} ELSE {"fail", "write", "ignore"}

OnEmptyResponse(r, o) ==
    CASE o = "default" -> defaultEmptyResponse(r)
      [] o = "fail" -> [res |-> r, err |-> ErrEmpty]
      [] o = "write" -> [res |-> NoContent(r, 204), err |-> Nil]
      [] o = "ignore" -> [res |-> r, err |-> Nil]

\* an empty-response check that looks at the body instead of the status
NeedsEmptyResponseByBody(r) == r.Body = ""

\* line 109
NeedsEmptyResponse(r) == r.StatusCode = 0

DoEmptyResponse(o) ==
    /\ pc = "check"
    /\ NeedsEmptyResponse(response)
    /\ o \in OnEmptyOutcomes
    /\ LET x == OnEmptyResponse(response, o) IN
       /\ response' = x.res
       /\ err' = x.err
       /\ stage' = "empty"
       /\ pc' = IF x.err # Nil THEN "onError" ELSE "marshal"
    /\ calls' = Inc(calls, "onEmptyResponse")
    /\ UNCHANGED <<cfg, h, payload, proc, request, ret, execVars, trace, bindRec,
                   onErrRet, execStatus, wrote, rs, unitVars>>

\* line 117
DoMarshal ==
    /\ \/ pc = "marshal"
       \/ pc = "check" /\ ~NeedsEmptyResponse(response)
    /\ ret' = MarshalResponse(proc, response)
    /\ pc' = "done"
    /\ calls' = Inc(calls, "marshal")
    /\ UNCHANGED <<cfg, h, payload, proc, request, response, err, stage, execVars,
                   trace, bindRec, onErrRet, execStatus, wrote, rs, unitVars>>

Steps ==
    \/ DoResolve
    \/ DoUnmarshal
    \/ MwCall
    \/ \E e \in {Nil, ErrDenied} : MwSkip(e)
    \/ MwAfter
    \/ HandlerStart
    \/ \E code \in Codes : HNoContent(code)
    \/ \E code \in Codes : HString(code, "body")
    \/ \E code \in Codes, v \in {GoValue("obj", "value"), GoValue("chan", "")} : HJSON(code, v)
    \/ HWriteBody("raw")
    \/ \E cb \in {Nil, ErrInvalid, ErrBadInput} : HBind(cb)
    \/ \E e \in {Nil, last} \cup HandlerErrs : HReturn(e)
    \/ \E o \in {"default", "same", "other", "write", "ignore"} : DoOnError(o)
    \/ \E o \in {"default", "fail", "write", "ignore"} : DoEmptyResponse(o)
    \/ DoMarshal

Next ==
    \/ \E p \in Payloads : Invoke(p)
    \/ Steps

Spec == Init /\ [][Next]_vars

\* the handlers built with Chain of 0..MaxMw middleware functions and no
\* other configuration, invoked with an API Gateway V2 payload
ChainConfigs ==
    {[resolver |-> NilResolver, mw |-> ChainOf(n), onBind |-> "nil", onError |-> "nil",
      onEmptyResponse |-> "nil"] : n \in 0..MaxMw}

ChainPayload == MkPayload(Version20, TRUE, FALSE, TRUE, BodyValid)

InitChain ==
    /\ cfg \in ChainConfigs
    /\ h = ComposeHandler(cfg)
    /\ pc = "idle"
    /\ payload = MkPayload(VersionAbsent, FALSE, FALSE, FALSE, BodyEmpty)
    /\ Fresh
    /\ rs = NoRs
    /\ NoUnit

NextChain ==
    \/ Invoke(ChainPayload)
    \/ Steps

SpecChain == InitChain /\ [][NextChain]_vars

TypeOK ==
    /\ pc \in {"idle", "resolve", "unmarshal", "exec", "onError", "check", "marshal", "done"}
    /\ depth \in 0..Len(h)
    /\ nops \in 0..MaxOps


\* ------------------------------------------- resolvers and predicates ----
\* every list of at most MaxProcs processors
ProcLists == UNION {[1..n -> Processors] : n \in 0..MaxProcs}

\* a conditional resolver over some list and a payload, not yet resolved
InitResolver ==
    /\ cfg = [resolver |-> NilResolver, mw |-> NilMiddleware, onBind |-> "nil",
              onError |-> "nil", onEmptyResponse |-> "nil"]
    /\ h = ComposeHandler(cfg)
    /\ pc = "idle"
    /\ payload \in AllPayloads
    /\ Fresh
    /\ rs \in {[NoRs EXCEPT !.ps = ps] : ps \in ProcLists}
    /\ NoUnit

\* NewConditionalResolver(rs.ps...).Resolve(payload)
ResolveConditional ==
    /\ ~rs.done
    /\ LET r == Resolve(NewConditionalResolver(rs.ps), payload) IN
       rs' = [rs EXCEPT !.done = TRUE, !.p = r.p, !.err = r.err, !.consulted = r.consulted]
    /\ UNCHANGED <<cfg, h, pipeVars, execVars, histVars, unitVars>>

\* CanProcess(payload) of each built-in processor
ProbeProcessors ==
    /\ ~rs.probed
    /\ rs' = [rs EXCEPT !.probed = TRUE, !.can = [q \in Processors |-> CanProcess(q, payload)]]
    /\ UNCHANGED <<cfg, h, pipeVars, execVars, histVars, unitVars>>

NextResolver ==
    \/ ResolveConditional
    \/ ProbeProcessors

SpecResolver == InitResolver /\ [][NextResolver]_vars

\* ---------------------------------------------------------- StatusCode ----
ChainNodes ==
    {WrapNode("context"), StatusNode(StatusBadRequest), StatusNode(409),
     CodedNode(404, "not found")}

\* the errors with at most MaxChain errors in the chain; errors.New has no
\* cause, so it ends a chain
Errors ==
    {e \in UNION {[1..n -> ChainNodes \cup {PlainNode("error")}] : n \in 0..MaxChain} :
        \A i \in 1..Len(e) : e[i].t = "plain" => i = Len(e)}

InitStatus ==
    /\ Unused
    /\ enc = NoEnc
    /\ dec = NoDec
    /\ st = NewStore
    /\ wr = NoWr
    /\ iv = NoIv
    /\ sc \in {[NoSc EXCEPT !.e = e] : e \in Errors}

\* StatusCode(sc.e)
CallStatusCode ==
    /\ ~sc.done
    /\ sc' = [sc EXCEPT !.done = TRUE, !.code = StatusCode(sc.e)]
    /\ UNCHANGED <<cfg, h, pipeVars, execVars, histVars, rs, enc, dec, st, wr, iv>>

SpecStatus == InitStatus /\ [][CallStatusCode]_vars

\* ----------------------------------------------------- MarshalResponse ----
\* header keys as a handler can store them in Response.Headers: with
\* Header.Set and the writers (canonical) or by assigning to the map
HeaderKeys == {"Content-Type", "X-Custom-Header", "x-custom-header"}

Responses ==
    [StatusCode : {200, 204},
     Headers : UNION {[ks -> {<<"v1">>, <<"v2", "v3">>}] : ks \in SUBSET HeaderKeys},
     Body : {"", "body"}]

InitEncode ==
    /\ Unused
    /\ sc = NoSc
    /\ dec = NoDec
    /\ st = NewStore
    /\ wr = NoWr
    /\ iv = NoIv
    /\ enc \in {[NoEnc EXCEPT !.p = p, !.r = r] : p \in Processors, r \in Responses}

\* enc.p.MarshalResponse(enc.r)
CallMarshalResponse ==
    /\ ~enc.done
    /\ enc' = [enc EXCEPT !.done = TRUE, !.out = MarshalResponse(enc.p, enc.r)]
    /\ UNCHANGED <<cfg, h, pipeVars, execVars, histVars, rs, sc, dec, st, wr, iv>>

SpecEncode == InitEncode /\ [][CallMarshalResponse]_vars

\* ---------------------------------------------------- UnmarshalRequest ----
\* the values of a map field of an event: absent, or a map from some of the
\* keys to the values
GoMaps(keys, values) ==
    {NilMap} \cup {MakeMap(kv) : kv \in UNION {[ks -> values] : ks \in SUBSET keys}}

QueryKeys == {"q1"}
RequestHeaderKeys == {"x-custom-header", "X-Custom-Header"}

\* the map fields of the events decoded; a single-value query string is the
\* sequence of its pieces and separators
EventMaps ==
    [pathParameters : GoMaps({"key"}, {"value"}),
     queryStringParameters : GoMaps(QueryKeys, {<<"v1">>, <<"v2", ",", "v3">>}),
     multiValueQueryStringParameters : GoMaps(QueryKeys, {<<>>, <<"v1">>, <<"v2", "v3">>}),
     headers : GoMaps(RequestHeaderKeys, {"h1", "h2"}),
     multiValueHeaders : GoMaps(RequestHeaderKeys, {<<"h3">>, <<"h4", "h5">>})]

\* a payload in the format of processor pp
BasePayload(pp) ==
    CASE pp = "Proxy" -> MkPayload(VersionAbsent, TRUE, FALSE, TRUE, BodyValid)
      [] pp = "V2" -> MkPayload(Version20, TRUE, FALSE, TRUE, BodyValid)
      [] pp = "ALB" -> MkPayload(VersionAbsent, FALSE, TRUE, TRUE, BodyValid)

InitDecode ==
    /\ Unused
    /\ sc = NoSc /\ enc = NoEnc /\ st = NewStore /\ wr = NoWr /\ iv = NoIv
    /\ dec \in {[NoDec EXCEPT !.p = pp, !.ev = [BasePayload(pp) EXCEPT !.maps = m]] :
                    pp \in Processors, m \in EventMaps}

\* dec.p.UnmarshalRequest(dec.ev)
CallUnmarshalRequest ==
    /\ ~dec.done
    /\ \E ord \in RangeOrders(dec.ev) :
          dec' = [dec EXCEPT !.done = TRUE, !.out = UnmarshalRequest(dec.p, dec.ev, ord)]
    /\ UNCHANGED <<cfg, h, pipeVars, execVars, histVars, rs, sc, enc, st, wr, iv>>

SpecDecode == InitDecode /\ [][CallUnmarshalRequest]_vars

\* ------------------------------------------------- Context: Get and Set ----
StoreKeys == {"key", "other"}
StoreValues == {"value", "changed"}

InitStore ==
    /\ Unused
    /\ sc = NoSc /\ enc = NoEnc /\ dec = NoDec /\ wr = NoWr /\ iv = NoIv
    /\ st = NewStore

StoreFrame == UNCHANGED <<cfg, h, pipeVars, execVars, histVars, rs, sc, enc, dec, wr, iv>>

\* a mutex that lets every Lock through
CanLockAlways == TRUE

\* sync.RWMutex: Lock waits for the writer and for every reader
CanLock == st.writer = "none" /\ st.readers = {}

\* sync.RWMutex: RLock waits for the writer
CanRLock == st.writer = "none"

\* Set(k, v), c.mu.Lock()
SetLock(g, k, v) ==
    /\ st.gpc[g] = "idle" /\ st.n[g] < MaxCalls
    /\ CanLock
    /\ st' = [st EXCEPT !.writer = g, !.gpc[g] = "set-test", !.op[g] = [k |-> k, v |-> v]]
    /\ StoreFrame

\* Set, if c.store == nil
SetTest(g) ==
    /\ st.gpc[g] = "set-test"
    /\ st' = [st EXCEPT !.sawNil[g] = st.store.nil, !.gpc[g] = "set-write"]
    /\ StoreFrame

\* Set, c.store = map[string]interface{}{key: v} or c.store[key] = v
SetWrite(g) ==
    /\ st.gpc[g] = "set-write"
    /\ st' = [st EXCEPT
                 !.store = IF st.sawNil[g]
                           THEN MakeMap(MapSet(EmptyMap, st.op[g].k, st.op[g].v))
                           ELSE MakeMap(MapSet(st.store.kv, st.op[g].k, st.op[g].v)),
                 !.sets = Append(@, st.op[g]),
                 !.gpc[g] = "set-unlock"]
    /\ StoreFrame

\* Set, the deferred c.mu.Unlock()
SetUnlock(g) ==
    /\ st.gpc[g] = "set-unlock"
    /\ st' = [st EXCEPT !.writer = IF @ = g THEN "none" ELSE @,
                        !.gpc[g] = "idle", !.n[g] = @ + 1]
    /\ StoreFrame

\* Get(k), c.mu.RLock()
GetRLock(g, k) ==
    /\ st.gpc[g] = "idle" /\ st.n[g] < MaxCalls
    /\ CanRLock
    /\ st' = [st EXCEPT !.readers = @ \cup {g}, !.gpc[g] = "get-read",
                        !.op[g] = [k |-> k, v |-> NoValue]]
    /\ StoreFrame

\* Get, the value returned: c.store[key], nil for a nil store
GetRead(g) ==
    /\ st.gpc[g] = "get-read"
    /\ LET k == st.op[g].k
           v == IF ~st.store.nil /\ k \in DOMAIN st.store.kv THEN st.store.kv[k] ELSE NoValue
       IN st' = [st EXCEPT !.got[g] = [called |-> TRUE, k |-> k, v |-> v, after |-> Len(st.sets)],
                           !.gpc[g] = "get-unlock"]
    /\ StoreFrame

\* Get, the deferred c.mu.RUnlock()
GetRUnlock(g) ==
    /\ st.gpc[g] = "get-unlock"
    /\ st' = [st EXCEPT !.readers = @ \ {g}, !.gpc[g] = "idle", !.n[g] = @ + 1]
    /\ StoreFrame

NextStore ==
    \E g \in Goroutines :
        \/ \E k \in StoreKeys, v \in StoreValues : SetLock(g, k, v)
        \/ SetTest(g)
        \/ SetWrite(g)
        \/ SetUnlock(g)
        \/ \E k \in StoreKeys : GetRLock(g, k)
        \/ GetRead(g)
        \/ GetRUnlock(g)

SpecStore == InitStore /\ [][NextStore]_vars

\* ------------------------------------------- Context: Response writers ----
WriteCodes == {0, 200, 404}
WriteStrings == {"", "text"}
WriteValues == {GoValue("obj", "value"), GoValue("chan", "")}

InitWriters ==
    /\ Unused
    /\ sc = NoSc /\ enc = NoEnc /\ dec = NoDec /\ st = NewStore /\ iv = NoIv
    /\ wr = NoWr

WriterFrame == UNCHANGED <<cfg, h, pipeVars, execVars, histVars, rs, sc, enc, dec, st, iv>>

Written(op, code, arg, after, e) ==
    /\ wr.n < MaxWrites
    /\ wr' = [wr EXCEPT !.r = after, !.n = wr.n + 1,
                 !.call = [op |-> op, code |-> code, arg |-> arg, before |-> wr.r, err |-> e]]
    /\ WriterFrame

\* c.NoContent(code)
CallNoContent(code) == Written("NoContent", code, "", NoContent(wr.r, code), Nil)

\* c.String(code, s)
CallString(code, s) == Written("String", code, s, String(wr.r, code, s), Nil)

\* c.JSON(code, v)
CallJSON(code, v) ==
    LET j == JSON(wr.r, code, v) IN Written("JSON", code, v.type, j.res, j.err)

\* c.Response().Headers.Add(k, v)
CallHeaderAdd(k, v) ==
    Written("Add", 0, k, [wr.r EXCEPT !.Headers = HeaderAdd(@, k, v)], Nil)

NextWriters ==
    \/ \E code \in WriteCodes : CallNoContent(code)
    \/ \E code \in WriteCodes, s \in WriteStrings : CallString(code, s)
    \/ \E code \in WriteCodes, v \in WriteValues : CallJSON(code, v)
    \/ \E k \in {"content-type", "x-custom-header"}, v \in {"a", "b"} : CallHeaderAdd(k, v)

SpecWriters == InitWriters /\ [][NextWriters]_vars

\* ------------------------------- Context: writers called concurrently ----
\* the writer calls the goroutines of a handler make on the one Context
Writes ==
    {[NoWrite EXCEPT !.op = "NoContent", !.code = c] : c \in {200, 404}}
    \cup {[NoWrite EXCEPT !.op = "String", !.code = c, !.s = "text"] : c \in {200, 404}}
    \cup {[NoWrite EXCEPT !.op = "JSON", !.code = c, !.v = v] : c \in {200, 404}, v \in WriteValues}

\* goroutine g calls a writer; JSON marshals the value into a local first and
\* returns when that fails; no writer takes c.mu
EnterWriter(g, w) ==
    /\ wr.gpc[g] = "idle"
    /\ LET j == jsonMarshal(w.v) IN
       wr' = [wr EXCEPT !.w[g] = w,
                        !.b[g] = IF w.op = "JSON" THEN j.text ELSE w.s,
                        !.gpc[g] = IF w.op = "JSON" /\ j.err # Nil THEN "done" ELSE "status"]
    /\ WriterFrame

\* c.response.StatusCode = code
WriteStatus(g) ==
    /\ wr.gpc[g] = "status"
    /\ wr' = [wr EXCEPT !.r.StatusCode = wr.w[g].code,
                        !.gpc[g] = IF wr.w[g].op = "NoContent" THEN "done" ELSE "body"]
    /\ WriterFrame

\* c.response.Body = s, or string(b)
WriteBody(g) ==
    /\ wr.gpc[g] = "body"
    /\ wr' = [wr EXCEPT !.r.Body = wr.b[g], !.gpc[g] = "header"]
    /\ WriterFrame

\* c.response.Headers["Content-Type"] = []string{...}
WriteContentType(g) ==
    /\ wr.gpc[g] = "header"
    /\ wr' = [wr EXCEPT
                 !.r.Headers = MapSet(@, "Content-Type",
                     <<IF wr.w[g].op = "JSON" THEN "application/json" ELSE "text/plain">>),
                 !.gpc[g] = "done"]
    /\ WriterFrame

NextRace ==
    \E g \in Goroutines :
        \/ \E w \in Writes : EnterWriter(g, w)
        \/ WriteStatus(g)
        \/ WriteBody(g)
        \/ WriteContentType(g)

SpecRace == InitWriters /\ [][NextRace]_vars

\* ------------------------------------------ invocations of one handler ----
InitInvocations ==
    /\ cfg \in ChainConfigs
    /\ h = ComposeHandler(cfg)
    /\ pc = "idle"
    /\ payload = MkPayload(VersionAbsent, FALSE, FALSE, FALSE, BodyEmpty)
    /\ Fresh
    /\ rs = NoRs
    /\ sc = NoSc /\ enc = NoEnc /\ dec = NoDec /\ st = NewStore /\ wr = NoWr
    /\ iv = NoIv

InvocationFrame ==
    UNCHANGED <<cfg, h, pipeVars, execVars, histVars, rs, sc, enc, dec, st, wr>>

\* NewWithConfig, lines 56-58: h = c.Middleware(h) applies every function of
\* the chain to its inner handler; the result and the number of
\* applications of each function
ApplyMiddleware(c, hh, applied) ==
    [h |-> IF c.mw.set THEN Chain(c.mw.m, hh) ELSE hh,
     applied |-> [i \in DOMAIN applied |->
                    applied[i] + (IF c.mw.set /\ i <= Len(c.mw.m) THEN 1 ELSE 0)]]

\* an invoke function that composes the middleware again
CapturedHandlerRecomposed(c, hh, applied) == ApplyMiddleware(c, <<HandlerName>>, applied)

\* the invoke function, line 103: the handler it calls is the variable h of
\* NewWithConfig that the closure captured
CapturedHandler(c, hh, applied) == [h |-> hh, applied |-> applied]

\* a Context that is kept from the invocation before
ReusedContext(old, id, hh) == [old EXCEPT !.live = TRUE, !.id = id, !.ran = hh, !.writes = 0]

\* the invoke function, lines 93-101: a new handlerContext with a new
\* Response and no store
NewContext(old, id, hh) ==
    [live |-> TRUE, id |-> id, response |-> NewResponse, store |-> NilMap,
     ran |-> hh, writes |-> 0]

\* NewWithConfig(cfg, H)
Construct ==
    /\ ~iv.built
    /\ LET a == ApplyMiddleware(cfg, <<HandlerName>>, iv.applied) IN
       iv' = [iv EXCEPT !.built = TRUE, !.h = a.h, !.applied = a.applied]
    /\ InvocationFrame

\* Invoke: the invocation in slot s builds its Context and calls the handler
Begin(s) ==
    /\ iv.built /\ ~iv.ctx[s].live /\ iv.n < MaxInvocations
    /\ LET a == CapturedHandler(cfg, iv.h, iv.applied) IN
       iv' = [iv EXCEPT !.n = @ + 1, !.h = a.h, !.applied = a.applied,
                        !.ctx[s] = NewContext(@, iv.n + 1, a.h)]
    /\ InvocationFrame

\* the handler of the invocation in slot s calls c.Set(k, v), v naming the
\* invocation
CtxSet(s, k) ==
    /\ iv.ctx[s].live /\ iv.ctx[s].writes < MaxOps
    /\ iv' = [iv EXCEPT !.ctx[s].store = MakeMap(MapSet(@.kv, k, iv.ctx[s].id)),
                        !.ctx[s].writes = @ + 1]
    /\ InvocationFrame

\* the handler of the invocation in slot s calls c.String(code, s), code and
\* s naming the invocation
CtxString(s) ==
    /\ iv.ctx[s].live /\ iv.ctx[s].writes < MaxOps
    /\ iv' = [iv EXCEPT !.ctx[s].response = String(@, iv.ctx[s].id, "text"),
                        !.ctx[s].writes = @ + 1]
    /\ InvocationFrame

\* the invocation in slot s returns
End(s) ==
    /\ iv.ctx[s].live
    /\ iv' = [iv EXCEPT !.ctx[s].live = FALSE]
    /\ InvocationFrame

NextInvocations ==
    \/ Construct
    \/ \E s \in Slots :
          \/ Begin(s)
          \/ \E k \in StoreKeys : CtxSet(s, k)
          \/ CtxString(s)
          \/ End(s)

SpecInvocations == InitInvocations /\ [][NextInvocations]_vars


\* ============================================================= claims ====
Done == pc = "done"

\* the error Resolve or UnmarshalRequest fails with for the payload, Nil if
\* both succeed
DecodeError ==
    LET r == Resolve(Resolver(cfg), payload) IN
    IF r.err # Nil THEN r.err
    ELSE LET ord == CHOOSE o \in RangeOrders(payload) : TRUE IN
         UnmarshalRequest(r.p, payload, ord).err

\* C1: when Resolve or UnmarshalRequest fails, the invocation returns that
\* error with no response bytes, and the handler, the middleware, the
\* bind-callback, the empty-response policy, the error handler and
\* MarshalResponse are never called in that invocation
C1_DecodeFailureAborts ==
    (pc # "idle" /\ DecodeError # Nil) =>
        /\ calls.handler = 0 /\ calls.mw = 0 /\ calls.onBind = 0
        /\ calls.onEmptyResponse = 0 /\ calls.onError = 0 /\ calls.marshal = 0
        /\ pc \in {"resolve", "unmarshal", "done"}
        /\ Done => ret = [bytes |-> <<>>, err |-> DecodeError]

\* an invocation ended by a failed decode of a payload that was resolved
C1_Witness ==
    /\ Done /\ calls.resolve = 1 /\ calls.unmarshal = 1
    /\ proc # NoProc /\ ret = [bytes |-> <<>>, err |-> ErrSyntax]


\* h has returned to the invoke function
ExecReturned == calls.unmarshal = 1 /\ request # NoRequest /\ depth = 0 /\ dir = "ret"

\* the error handler and the empty-response policy are the defaults
DefaultRecovery == cfg.onError = "nil" /\ cfg.onEmptyResponse = "nil"

\* the encoded response
Encoded == ret.bytes[1]

ErrorBody(e) == "{\"message\":\"" \o ErrorMsg(e) \o "\"}"

IsJSONErrorResponse(e) ==
    /\ Encoded.Body = ErrorBody(e)
    /\ "Content-Type" \in DOMAIN Encoded.Headers
    /\ Encoded.Headers["Content-Type"] = "application/json"
    /\ Encoded.MultiValueHeaders["Content-Type"] = <<"application/json">>

\* C2 as stated: under the default configuration every error e returned by
\* the handler is encoded with status StatusCode(e), body {"message": e.Error()}
\* and Content-Type application/json
C2_Original ==
    (Done /\ DefaultRecovery /\ ExecReturned /\ hret # Nil) =>
        /\ ret.err = Nil /\ ret.bytes # <<>>
        /\ Encoded.StatusCode = StatusCode(hret)
        /\ IsJSONErrorResponse(hret)

\* C2 amended: the status is StatusCode(e) when that is not 0; an error whose
\* status code is 0 leaves the status unset, the empty-response policy then
\* sets 200; body and Content-Type are as stated in both cases
C2_ErrorResponse ==
    (Done /\ DefaultRecovery /\ ExecReturned /\ hret # Nil) =>
        /\ ret.err = Nil /\ ret.bytes # <<>>
        /\ Encoded.StatusCode = IF StatusCode(hret) = 0 THEN StatusOK ELSE StatusCode(hret)
        /\ IsJSONErrorResponse(hret)

\* a status error with code 409 and message "error" encoded as 409
C2_Witness ==
    /\ Done /\ DefaultRecovery /\ ExecReturned
    /\ hret = WrapError(409, NewPlain("error"))
    /\ ret.bytes # <<>>
    /\ Encoded.StatusCode = 409 /\ Encoded.Body = "{\"message\":\"error\"}"

\* C3: with the default error handler and empty-response policy, an
\* invocation whose payload was resolved and decoded never returns an error:
\* the error handler returns nil for every error of the handler, the
\* middleware and the bind-callback
C3_HandlerErrorsNotReturned ==
    DefaultRecovery =>
        /\ onErrRet = Nil
        /\ (Done /\ ret.err # Nil) =>
               /\ ret.err = DecodeError
               /\ calls.handler = 0 /\ calls.mw = 0 /\ calls.onBind = 0
        /\ (Done /\ ExecReturned) => ret.err = Nil /\ ret.bytes # <<>>

\* a handler error, here the error of the bind-callback, was recovered
C3_Witness ==
    /\ Done /\ DefaultRecovery /\ ExecReturned
    /\ hret = ErrInvalid /\ bindRec.ret = ErrInvalid /\ calls.onError = 1
    /\ ret.err = Nil /\ ret.bytes # <<>>

\* the empty-response policy is called exactly when h returned no error and
\* left the status at 0; a non-zero status written by the handler is kept
C4_PolicyWhenUnset ==
    (Done /\ ExecReturned /\ hret = Nil) =>
        /\ calls.onEmptyResponse = (IF execStatus = 0 THEN 1 ELSE 0)
        /\ execStatus # 0 =>
               ret.err = Nil /\ ret.bytes # <<>> /\ Encoded.StatusCode = execStatus

\* C4 as stated: ... and a handler that never writes a status yields, with
\* the default policy, status 200 and an empty body
C4_Original ==
    /\ C4_PolicyWhenUnset
    /\ (Done /\ ExecReturned /\ hret = Nil /\ cfg.onEmptyResponse = "nil" /\ ~wrote.status) =>
           /\ ret.err = Nil /\ ret.bytes # <<>>
           /\ Encoded.StatusCode = StatusOK /\ Encoded.Body = ""

\* C4 amended: when h returns no error the policy is called exactly when the
\* status is still 0; a handler that writes neither a status nor a body
\* yields, with the default policy, status 200 and an empty body (a body the
\* handler assigned without a status is kept); a non-zero status is kept and
\* the policy is not called
C4_EmptyResponsePolicy ==
    /\ C4_PolicyWhenUnset
    /\ (Done /\ ExecReturned /\ hret = Nil /\ cfg.onEmptyResponse = "nil" /\ ~wrote.status) =>
           /\ ret.err = Nil /\ ret.bytes # <<>>
           /\ Encoded.StatusCode = StatusOK
           /\ ~wrote.body => Encoded.Body = ""

\* a handler that wrote nothing got the default response
C4_Witness ==
    /\ Done /\ ExecReturned /\ hret = Nil /\ cfg.onEmptyResponse = "nil"
    /\ calls.handler = 1 /\ ~wrote.status /\ ~wrote.body
    /\ calls.onEmptyResponse = 1
    /\ ret.bytes # <<>> /\ Encoded.StatusCode = StatusOK /\ Encoded.Body = ""

\* C5: when the error handler returns an error, for an error of h or for an
\* error of the empty-response policy, Invoke returns exactly that error and
\* nil bytes, and MarshalResponse is not called
C5_ErrorHandlerAborts ==
    onErrRet # Nil =>
        /\ Done
        /\ ret = [bytes |-> <<>>, err |-> onErrRet]
        /\ calls.marshal = 0

\* the error handler turned the error of the empty-response policy into
\* another error
C5_Witness ==
    /\ Done /\ stage = "empty" /\ calls.onEmptyResponse = 1 /\ calls.onError >= 1
    /\ onErrRet = ErrFatal /\ ret = [bytes |-> <<>>, err |-> ErrFatal]


\* the events of M1..Mk before the inner call, and after it in reverse
Befores(m, k) == [j \in 1..k |-> m[j] \o "-before"]
Afters(m, k) == [j \in 1..k |-> m[k + 1 - j] \o "-after"]

\* C6: Chain(M1, ..., Mn) applied to H runs M1-before, ..., Mn-before, H,
\* Mn-after, ..., M1-after, each once; with n = 0 it is H itself; when Mi
\* returns without calling its inner handler, neither a later Mj nor H runs
\* (M1..Mi-1 still run their code after the call)
C6_ChainOrder ==
    LET m == cfg.mw.m
        n == Len(m)
        i == calls.mw
    IN  /\ n = 0 => h = <<HandlerName>>
        /\ ExecReturned =>
               IF calls.handler = 1
               THEN i = n /\ trace = Befores(m, n) \o <<HandlerName>> \o Afters(m, n)
               ELSE /\ calls.handler = 0
                    /\ i \in 1..n
                    /\ trace = Befores(m, i) \o Afters(m, i - 1)

\* Chain(M1, M2) around H ran in the order of TestChain
C6_Witness ==
    /\ ExecReturned /\ cfg.mw.m = <<"M1", "M2">>
    /\ trace = <<"M1-before", "M2-before", "H", "M2-after", "M1-after">>

\* the indexes of the processors of rs.ps that can process the payload
Matching == {i \in 1..Len(rs.ps) : CanProcess(rs.ps[i], payload)}

FirstMatching == CHOOSE i \in Matching : \A j \in Matching : i <= j

\* C7: the conditional resolver returns the processor with the smallest
\* index whose CanProcess is true and consults no later processor; it
\* returns ErrUnsupportedEventType and no processor exactly when no
\* processor's CanProcess is true, also for the empty list
C7_FirstMatch ==
    rs.done =>
        IF Matching = {}
        THEN /\ rs.err = ErrUnsupportedEventType /\ rs.p = NoProc
             /\ rs.consulted = [j \in 1..Len(rs.ps) |-> j]
        ELSE /\ rs.err = Nil /\ rs.p = rs.ps[FirstMatching]
             /\ rs.consulted = [j \in 1..FirstMatching |-> j]

\* two processors of the list match and the first of the list does not
C7_Witness ==
    /\ rs.done /\ Len(rs.ps) = 3 /\ Matching = {2, 3}
    /\ rs.ps[2] # rs.ps[3] /\ rs.p = rs.ps[2] /\ rs.consulted = <<1, 2>>

\* the earliest of Gateway-Proxy, Gateway-V2, Load-Balancer whose CanProcess
\* holds for the payload
EarliestBuiltin ==
    IF CanProcess("Proxy", payload) THEN "Proxy"
    ELSE IF CanProcess("V2", payload) THEN "V2"
    ELSE IF CanProcess("ALB", payload) THEN "ALB"
    ELSE NoProc

\* C8: with no Resolver configured the processor that decodes and encodes
\* is the earliest of Gateway-Proxy, Gateway-V2, Load-Balancer whose
\* CanProcess holds, also when more than one holds, and the processor that
\* decoded the request encodes the response
C8_DefaultOrder ==
    (cfg.resolver = NilResolver /\ calls.resolve = 1) =>
        /\ proc = EarliestBuiltin
        /\ (Done /\ EarliestBuiltin = NoProc) => ret.err = ErrUnsupportedEventType
        /\ request # NoRequest => request.Event = EarliestBuiltin
        /\ ret.bytes # <<>> => Encoded.format = EarliestBuiltin /\ Encoded.format = request.Event

\* a payload with an API id and a load-balancer field went through the
\* Gateway-Proxy processor
C8_Witness ==
    /\ Done /\ cfg.resolver = NilResolver
    /\ payload.apiId /\ payload.elb /\ ~payload.version.exists
    /\ request.Event = "Proxy" /\ ret.bytes # <<>> /\ Encoded.format = "Proxy"

BuiltForProxy == payload.apiId /\ ~payload.version.exists /\ ~payload.elb
BuiltForV2 == payload.version = Version20 /\ payload.apiId /\ ~payload.elb
BuiltForALB == payload.elb /\ ~payload.version.exists /\ ~payload.apiId

Only(q) == [x \in Processors |-> x = q]

\* C9: a payload built for one variant is accepted by that variant's
\* CanProcess and rejected by the other two, and no payload is accepted by
\* both the Gateway-Proxy and the Gateway-V2 predicate
C9_Predicates ==
    rs.probed =>
        /\ BuiltForProxy => rs.can = Only("Proxy")
        /\ BuiltForV2 => rs.can = Only("V2")
        /\ BuiltForALB => rs.can = Only("ALB")
        /\ ~(rs.can["Proxy"] /\ rs.can["V2"])

\* the three predicates were applied to a Gateway-V2 payload
C9_Witness == rs.probed /\ BuiltForV2 /\ rs.can = Only("V2")

\* C10: Bind on an empty body returns nil, leaves the target as it was and
\* does not call the bind-callback; Bind on a body that is not valid JSON
\* returns an error with status code 400 and does not call the bind-callback
C10_BindEmptyOrInvalid ==
    bindRec.called =>
        /\ bindRec.body = BodyEmpty =>
               /\ bindRec.ret = Nil /\ bindRec.after = bindRec.before
               /\ bindRec.callbacks = 0 /\ calls.onBind = 0
        /\ bindRec.body = BodyInvalid =>
               /\ bindRec.ret # Nil /\ StatusCode(bindRec.ret) = 400
               /\ bindRec.callbacks = 0 /\ calls.onBind = 0

\* Bind was called on the body "{" with a bind-callback configured
C10_Witness ==
    /\ bindRec.called /\ bindRec.body = BodyInvalid /\ cfg.onBind = "custom"
    /\ StatusCode(bindRec.ret) = 400 /\ last = bindRec.ret


\* C11: a Bind call on a valid non-empty JSON body calls the bind-callback
\* exactly once, with the populated target, and returns what the callback
\* returned (nil or the same error, with that error's own status code); with
\* the default error handling a handler that returns a plain error of the
\* callback gets a 500 response carrying the error's message
C11_BindCallback ==
    /\ (bindRec.called /\ bindRec.body = BodyValid) =>
           /\ bindRec.callbacks = 1
           /\ bindRec.after = GoValue("obj", "value") /\ bindRec.arg = bindRec.after
           /\ bindRec.ret = bindRec.cbret
           /\ StatusCode(bindRec.ret) = StatusCode(bindRec.cbret)
    /\ (Done /\ DefaultRecovery /\ ExecReturned /\ bindRec.called
          /\ bindRec.cbret = ErrInvalid /\ hret = bindRec.ret) =>
           /\ ret.err = Nil /\ ret.bytes # <<>>
           /\ Encoded.StatusCode = StatusInternalServerError
           /\ Encoded.Body = "{\"message\":\"invalid\"}"

\* the handler returned the plain error of the bind-callback and got a 500
C11_Witness ==
    /\ Done /\ DefaultRecovery /\ ExecReturned
    /\ bindRec.called /\ bindRec.body = BodyValid /\ bindRec.callbacks = 1
    /\ bindRec.cbret = ErrInvalid /\ hret = ErrInvalid
    /\ ret.bytes # <<>> /\ Encoded.StatusCode = 500


C13_EncodedHeaders ==
    (enc.done /\ enc.out.bytes # <<>>) =>
        LET o == enc.out.bytes[1] IN
        /\ DOMAIN o.Headers = DOMAIN enc.r.Headers
        /\ \A k \in DOMAIN enc.r.Headers : o.Headers[k] = enc.r.Headers[k][1]
        /\ o.MultiValueHeaders = enc.r.Headers


\* the values stored under key k, none if the map has no such key
Lookup(m, k) == IF k \in DOMAIN m THEN m[k] ELSE <<>>

RECURSIVE ConcatAll(_)
ConcatAll(ss) == IF ss = <<>> THEN <<>> ELSE Head(ss) \o ConcatAll(Tail(ss))

\* the keys of map m that are spellings of the header name k
Spellings(m, k) == {x \in DOMAIN m : CanonicalKey(x) = CanonicalKey(k)}

\* the lists a merge of the entries of sv and mv for header k can give: the
\* single-value entries first, then the multi-value lists, each in its order
MergedHeader(sv, mv, k) ==
    LET svk == [x \in Spellings(sv, k) |-> <<sv[x]>>]
        mvk == [x \in Spellings(mv, k) |-> mv[x]]
    IN
    {ConcatAll([i \in DOMAIN o |-> svk[o[i]]]) \o ConcatAll([i \in DOMAIN q |-> mvk[q[i]]]) :
        o \in KeyOrders(svk), q \in KeyOrders(mvk)}

\* C14: the Load-Balancer decode gives for every query key and every header
\* the single-value entry (if present) followed by the multi-value entries
\* in their order, so a key present in one form only has exactly that form's
\* values, and the decoded path-parameter map is empty
C14_ALBMerge ==
    (dec.done /\ dec.p = "ALB" /\ dec.out.err = Nil) =>
        LET m == dec.ev.maps
            r == dec.out.req
        IN
        /\ \A k \in QueryKeys :
              Lookup(r.Query.kv, k) =
                  (IF k \in DOMAIN m.queryStringParameters.kv
                   THEN <<Join(m.queryStringParameters.kv[k])>> ELSE <<>>)
                  \o Lookup(m.multiValueQueryStringParameters.kv, k)
        /\ DOMAIN r.Query.kv \subseteq QueryKeys
        /\ \A k \in RequestHeaderKeys :
              Lookup(r.Header.kv, CanonicalKey(k)) \in
                  MergedHeader(m.headers.kv, m.multiValueHeaders.kv, k)
        /\ DOMAIN r.Header.kv \subseteq {CanonicalKey(k) : k \in RequestHeaderKeys}
        /\ r.Path = MakeMap(EmptyMap)

\* a query key and a header carried in both forms
C14_Witness ==
    /\ dec.done /\ dec.p = "ALB" /\ dec.out.err = Nil
    /\ dec.ev.maps.queryStringParameters = MakeMap([k \in {"q1"} |-> <<"v2", ",", "v3">>])
    /\ dec.ev.maps.multiValueQueryStringParameters = MakeMap([k \in {"q1"} |-> <<"v1">>])
    /\ dec.out.req.Query.kv["q1"] = <<"v2,v3", "v1">>
    /\ dec.ev.maps.headers = MakeMap([k \in {"x-custom-header"} |-> "h1"])
    /\ dec.ev.maps.multiValueHeaders = MakeMap([k \in {"X-Custom-Header"} |-> <<"h4", "h5">>])
    /\ dec.out.req.Header.kv["X-Custom-Header"] = <<"h1", "h4", "h5">>

\* C15: for each processor and every payload that decodes, also one without
\* path parameters, query parameters or headers, the maps Path, Query and
\* Header of the decoded Request are not nil
C15_MapsNeverNil ==
    (dec.done /\ dec.out.err = Nil) =>
        /\ ~dec.out.req.Path.nil
        /\ ~dec.out.req.Query.nil
        /\ ~dec.out.req.Header.nil


\* the value of the latest Set(k, _) among the first n Sets in the order in
\* which they held the lock, nil if there is none
RECURSIVE LatestSet(_, _)
LatestSet(n, k) ==
    IF n = 0 THEN NoValue
    ELSE IF st.sets[n].k = k THEN st.sets[n].v
    ELSE LatestSet(n - 1, k)

\* C16: concurrent Set and Get calls on one Context are serialized, the
\* first Sets that create the store included: a writer holds the mutex alone,
\* the store holds for every key the value of the latest Set of that key (no
\* Set is lost and no Set changes another key), and Get(k) returns nil when
\* no Set(k, _) came before it and the value of the latest one otherwise
C16_StoreSerialized ==
    /\ st.writer # "none" => st.readers = {}
    /\ \A g1, g2 \in Goroutines :
          (st.gpc[g1] \in {"set-test", "set-write", "set-unlock"}
             /\ st.gpc[g2] \in {"set-test", "set-write", "set-unlock"}) => g1 = g2
    /\ \A k \in StoreKeys :
          (IF ~st.store.nil /\ k \in DOMAIN st.store.kv THEN st.store.kv[k] ELSE NoValue)
              = LatestSet(Len(st.sets), k)
    /\ \A g \in Goroutines :
          st.got[g].called => st.got[g].v = LatestSet(st.got[g].after, st.got[g].k)

\* two goroutines each Set one of two keys on the new Context and then Get a
\* key: both keys are read back
C16_Witness ==
    /\ Len(st.sets) = 2 /\ st.sets[1].k # st.sets[2].k
    /\ st.n["g1"] = 2 /\ st.n["g2"] = 2
    /\ st.got["g1"].called /\ st.got["g2"].called
    /\ st.got["g1"].k # st.got["g2"].k
    /\ st.got["g1"].v # NoValue /\ st.got["g2"].v # NoValue


\* C17: NoContent(code) sets the status only: body and every header, a
\* Content-Type written by an earlier String or JSON included, are what they
\* were before the call, and the call returns nil
C17_NoContentStatusOnly ==
    wr.call.op = "NoContent" =>
        /\ wr.r.StatusCode = wr.call.code
        /\ wr.r.Body = wr.call.before.Body
        /\ wr.r.Headers = wr.call.before.Headers
        /\ wr.call.err = Nil

\* NoContent after a String that wrote a body and a Content-Type
C17_Witness ==
    /\ wr.call.op = "NoContent"
    /\ wr.call.before.Body = "text"
    /\ "Content-Type" \in DOMAIN wr.call.before.Headers
    /\ wr.call.before.Headers["Content-Type"] = <<"text/plain">>
    /\ wr.call.before.StatusCode # wr.call.code
    /\ wr.r.Body = "text" /\ wr.r.Headers["Content-Type"] = <<"text/plain">>

\* the headers other than Content-Type are the same in r1 and r2
SameOtherHeaders(r1, r2) ==
    /\ DOMAIN r1.Headers \ {"Content-Type"} = DOMAIN r2.Headers \ {"Content-Type"}
    /\ \A k \in DOMAIN r1.Headers \ {"Content-Type"} : r1.Headers[k] = r2.Headers[k]

\* C18: JSON with a value that cannot be serialized returns the error and
\* leaves status, body and headers as they were; String and a successful JSON
\* write status and body and leave exactly one Content-Type value, text/plain
\* or application/json, whatever the Response held, and no other header
\* changes
C18_Writers ==
    /\ (wr.call.op = "JSON" /\ wr.call.arg = "chan") =>
          wr.call.err = ErrUnsupportedType /\ wr.r = wr.call.before
    /\ (wr.call.op = "JSON" /\ wr.call.arg = "obj") =>
          /\ wr.call.err = Nil
          /\ wr.r.StatusCode = wr.call.code
          /\ wr.r.Body = "{\"key\":\"value\"}"
          /\ "Content-Type" \in DOMAIN wr.r.Headers
          /\ wr.r.Headers["Content-Type"] = <<"application/json">>
          /\ SameOtherHeaders(wr.r, wr.call.before)
    /\ wr.call.op = "String" =>
          /\ wr.call.err = Nil
          /\ wr.r.StatusCode = wr.call.code
          /\ wr.r.Body = wr.call.arg
          /\ "Content-Type" \in DOMAIN wr.r.Headers
          /\ wr.r.Headers["Content-Type"] = <<"text/plain">>
          /\ SameOtherHeaders(wr.r, wr.call.before)

\* JSON fails on a Response that a String and a header Add wrote before
C18_Witness ==
    /\ wr.call.op = "JSON" /\ wr.call.err # Nil
    /\ wr.call.before.StatusCode = 404 /\ wr.call.before.Body = "text"
    /\ wr.call.code = 200
    /\ "X-Custom-Header" \in DOMAIN wr.r.Headers
    /\ wr.r = wr.call.before


\* C19: an invocation whose handler and callbacks return ends either with
\* response bytes and a nil error or with nil bytes and an error, never with
\* both and never with neither
C19_OneOutcome ==
    Done =>
        \/ ret.bytes # <<>> /\ ret.err = Nil
        \/ ret.bytes = <<>> /\ ret.err # Nil

\* the handler's error was handled, the empty-response policy then failed
\* and the error handler returned an error for it: no bytes
C19_Witness ==
    /\ Done /\ ExecReturned /\ hret # Nil
    /\ calls.onError = 2 /\ calls.onEmptyResponse = 1 /\ calls.marshal = 0
    /\ ret.bytes = <<>> /\ ret.err # Nil

\* execution returned an error
ExecFailed == ExecReturned /\ hret # Nil

\* C20 as stated: when the handler or a middleware returns an error the
\* pipeline goes from execution to the error handler and then to encoding,
\* and the empty-response policy is invoked only when execution returned no
\* error
C20_Original ==
    ExecFailed =>
        /\ calls.onEmptyResponse = 0
        /\ Done => calls.onError = 1

\* C20: when the handler or a middleware returns an error, the error handler
\* is called next; when it returns an error the invocation ends, and when it
\* returns nil the status check follows as after an execution without
\* error: the empty-response policy is invoked exactly when the status is
\* still 0, and otherwise the Response is encoded
C20_RecoveryThenCheck ==
    [][ExecFailed =>
          /\ (pc = "onError" /\ stage = "exec") =>
                /\ calls.onEmptyResponse = 0 /\ calls.marshal = 0
                /\ calls'.onError = calls.onError + 1
                /\ IF onErrRet' # Nil THEN pc' = "done" ELSE pc' = "check"
          /\ pc = "check" =>
                /\ calls.onError = 1
                /\ IF response.StatusCode = 0
                   THEN calls'.onEmptyResponse = 1 /\ calls'.marshal = 0
                   ELSE calls'.onEmptyResponse = 0 /\ calls'.marshal = 1
       ]_vars

\* the error handler returned nil and left the status at 0: the
\* empty-response policy ran before the Response was encoded
C20_Witness ==
    /\ Done /\ ExecFailed
    /\ calls.onError = 1 /\ calls.onEmptyResponse = 1 /\ calls.marshal = 1
    /\ ret.bytes # <<>> /\ Encoded.StatusCode = StatusOK


\* the Response after the writer call w made alone on r
Alone(r, w) ==
    CASE w.op = "NoContent" -> NoContent(r, w.code)
      [] w.op = "String" -> String(r, w.code, w.s)
      [] w.op = "JSON" -> JSON(r, w.code, w.v).res
      [] OTHER -> r

RECURSIVE OneByOne(_, _)
OneByOne(r, order) ==
    IF order = <<>> THEN r ELSE OneByOne(Alone(r, wr.w[Head(order)]), Tail(order))

\* when every goroutine has returned from its writer, the Response is what the
\* calls leave when made one after the other in some order
SerialOutcome ==
    (\A g \in Goroutines : wr.gpc[g] = "done") =>
        \E order \in KeyOrders(wr.gpc) : wr.r = OneByOne(NewResponse, order)

\* C21: concurrent calls of NoContent, String and JSON on one Context exclude
\* each other, so the Response never holds the status of one call with the
\* body or the Content-Type of another
C21_WritersExclusive ==
    /\ \A g1, g2 \in Goroutines :
          (wr.gpc[g1] \in {"body", "header"} /\ wr.gpc[g2] \in {"body", "header"}) => g1 = g2
    /\ SerialOutcome


\* what Get(k) returns on the Context x
GetOn(x, k) == IF ~x.store.nil /\ k \in DOMAIN x.store.kv THEN x.store.kv[k] ELSE 0

\* C22: every invocation gets a new Context, with status 0, no header, no
\* body and nil for every key, and however many invocations of one handler
\* run one after the other or at the same time, an invocation never sees a
\* value Set or a Response field written by another one
C22_FreshContext ==
    \A s \in Slots :
        LET x == iv.ctx[s] IN
        x.live =>
            /\ x.writes = 0 =>
                  /\ x.response = NewResponse
                  /\ \A k \in StoreKeys : GetOn(x, k) = 0
            /\ \A k \in StoreKeys : GetOn(x, k) \in {0, x.id}
            /\ x.response.StatusCode \in {0, x.id}
            /\ x.response.Body # "" => x.response.StatusCode = x.id

\* the third invocation starts in a slot whose earlier invocation wrote to
\* its Context, while another invocation that wrote to its own is running
C22_Witness ==
    /\ iv.n = 3
    /\ iv.ctx[1].live /\ iv.ctx[1].id = 3 /\ iv.ctx[1].writes = 0
    /\ iv.ctx[2].live /\ iv.ctx[2].id = 2 /\ iv.ctx[2].writes = 2
    /\ iv.ctx[2].response.StatusCode = 2 /\ GetOn(iv.ctx[2], "key") = 2
    /\ iv.ctx[1].response = NewResponse /\ GetOn(iv.ctx[1], "key") = 0

\* C23: the composition is built once: NewWithConfig applies the configured
\* middleware, and each function given to Chain, to its inner handler once,
\* no invocation applies it again, and every invocation runs that handler
C23_ComposedOnce ==
    /\ iv.built =>
          /\ iv.h = ComposeHandler(cfg)
          /\ \A i \in DOMAIN iv.applied :
                iv.applied[i] = IF cfg.mw.set /\ i <= Len(cfg.mw.m) THEN 1 ELSE 0
    /\ ~iv.built => iv.n = 0 /\ \A i \in DOMAIN iv.applied : iv.applied[i] = 0
    /\ \A s \in Slots : iv.ctx[s].live => iv.ctx[s].ran = ComposeHandler(cfg)

\* the third invocation of a handler with a Chain of two functions
C23_Witness ==
    /\ iv.n = 3 /\ Len(cfg.mw.m) = 2
    /\ \E s \in Slots : iv.ctx[s].live /\ iv.ctx[s].id = 3 /\ iv.ctx[s].ran = <<"M1", "M2", "H">>
    /\ iv.applied[1] = 1 /\ iv.applied[2] = 1


\* how often the layer called name of the composed handler was entered
RECURSIVE Entered(_, _)
Entered(t, name) ==
    IF t = <<>> THEN 0
    ELSE (IF Head(t) = (IF name = HandlerName THEN name ELSE name \o "-before") THEN 1 ELSE 0)
         + Entered(Tail(t), name)

\* C24: no step of the pipeline is retried: in one invocation the composed
\* handler runs once, and only after a successful decode, the
\* empty-response policy runs at most once, and the error handler runs at
\* most once for the error of the execution and at most once for the error
\* of the empty-response policy, the second time only after the first
\* returned nil and left the status at 0
C24_NoRetry ==
    /\ calls.resolve <= 1 /\ calls.unmarshal <= 1 /\ calls.marshal <= 1
    /\ \A i \in DOMAIN h : Entered(trace, h[i]) <= 1
    /\ pc \in {"idle", "resolve", "unmarshal"} => trace = <<>>
    /\ pc \in {"onError", "check", "marshal"} => Entered(trace, h[1]) = 1
    /\ Done => Entered(trace, h[1]) = (IF calls.unmarshal = 1 /\ request # NoRequest THEN 1 ELSE 0)
    /\ calls.onEmptyResponse <= 1
    /\ pc = "check" => calls.onEmptyResponse = 0
    /\ calls.onError <= 2
    /\ (pc = "onError" /\ stage = "exec") => calls.onError = 0 /\ calls.onEmptyResponse = 0
    /\ (pc = "onError" /\ stage = "empty") =>
          /\ calls.onEmptyResponse = 1
          /\ calls.onError <= 1
          /\ calls.onError = 1 => hret # Nil /\ onErrRet = Nil /\ response.StatusCode = 0
    /\ calls.onError = 2 => calls.onEmptyResponse = 1 /\ hret # Nil

\* an invocation ended after the error handler ran for the error of the
\* execution and again for the error of the empty-response policy
C24_Witness ==
    /\ Done /\ calls.onError = 2 /\ calls.onEmptyResponse = 1
    /\ Entered(trace, h[1]) = 1 /\ Len(h) = 2 /\ calls.handler = 1


\* C25: with the default error handler and the default empty-response policy
\* every Response that is encoded has a status other than 0, whatever the
\* handler does: it may write status 0 or return a status error with code 0
C25_EncodedStatusNonZero ==
    (DefaultRecovery /\ Done /\ ret.bytes # <<>>) => Encoded.StatusCode # 0

\* the handler wrote status 0 and returned a status error with code 0; the
\* error is encoded with status 200
C25_Witness ==
    /\ DefaultRecovery /\ Done /\ ExecReturned
    /\ wrote.status /\ execStatus = 0
    /\ hret = WrapError(0, NewPlain("error"))
    /\ calls.onError = 1 /\ calls.onEmptyResponse = 1
    /\ ret.bytes # <<>> /\ Encoded.StatusCode = StatusOK /\ Encoded.Body = ErrorBody(hret)


\* the headers of r other than Content-Type are headers of q, with the same
\* values
OtherHeadersKept(r, q) ==
    \A k \in DOMAIN r.Headers \ {"Content-Type"} :
        k \in DOMAIN q.Headers /\ q.Headers[k] = r.Headers[k]

\* default recovery of the error that execution returned: the error handler
\* writes the status, the body and Content-Type and keeps the other headers
RecoveryStep ==
    (DefaultRecovery /\ ExecFailed /\ pc = "onError" /\ stage = "exec") =>
        /\ response'.StatusCode = StatusCode(hret)
        /\ response'.Body = ErrorBody(hret)
        /\ response'.Headers["Content-Type"] = <<"application/json">>
        /\ OtherHeadersKept(response, response')

\* from the error handler to the encoding no header is dropped or changed
KeptStep ==
    (DefaultRecovery /\ ExecFailed /\ pc \in {"check", "marshal"}) =>
        /\ OtherHeadersKept(response, response')
        /\ response'.Body = response.Body
        /\ "Content-Type" \in DOMAIN response.Headers
        /\ response'.Headers["Content-Type"] = response.Headers["Content-Type"]

\* the encoded error response holds the body and the headers of the Response
ErrorEncoded ==
    (DefaultRecovery /\ ExecFailed /\ Done /\ ret.bytes # <<>>) =>
        /\ Encoded.StatusCode = (IF StatusCode(hret) = 0 THEN StatusOK ELSE StatusCode(hret))
        /\ Encoded.Body = ErrorBody(hret)
        /\ Encoded.MultiValueHeaders = response.Headers
        /\ DOMAIN Encoded.Headers = DOMAIN response.Headers
        /\ Encoded.Headers["Content-Type"] = "application/json"
        /\ Encoded.MultiValueHeaders["Content-Type"] = <<"application/json">>

\* C26: when a handler or a middleware wrote to the Response and execution
\* then returns an error, default error recovery overwrites the status, the
\* body and the Content-Type header and keeps every other header written
\* before the error, and those headers are in the encoded error response
C26_RecoveryKeepsHeaders ==
    /\ [][RecoveryStep /\ KeptStep]_vars
    /\ []ErrorEncoded

\* a middleware set X-Custom-Header, the handler wrote a status and a body
\* and returned a status error: the encoded response is the error with
\* X-Custom-Header
C26_Witness ==
    /\ DefaultRecovery /\ ExecFailed /\ Done /\ ret.bytes # <<>>
    /\ Len(h) = 2 /\ calls.handler = 1 /\ wrote.status /\ wrote.body
    /\ execStatus = 201
    /\ hret = WrapError(409, NewPlain("error"))
    /\ Encoded.StatusCode = 409 /\ Encoded.Body = ErrorBody(hret)
    /\ Encoded.MultiValueHeaders["Content-Type"] = <<"application/json">>
    /\ Encoded.MultiValueHeaders["X-Custom-Header"] = <<"header">>
    /\ Encoded.Headers["X-Custom-Header"] = "header"

====
